---- MODULE Spec2Model ----
(***************************************************************************)
(* Resume Builder: the client-side document (App.resumeData), the five     *)
(* section editors, the Preview component's save path, the resumeService   *)
(* gateway with its localStorage fallback, and the Store behind it.        *)
(*                                                                         *)
(* JavaScript objects that the code writes in place (the entries of        *)
(* experiences and education) are modelled as heap objects: resumeData     *)
(* holds sequences of references, expObjs / eduObjs hold the objects.      *)
(* Strings that are only compared with '' are TLA+ strings; skill texts,   *)
(* which the code trims, are sequences of one-character strings.           *)
(***************************************************************************)
EXTENDS Integers, Sequences, FiniteSets, TLC

VARIABLES
    resumeData,     \* App: useState resumeData (experiences/education hold references)
    expObjs,        \* heap: the experience entry objects, by reference
    eduObjs,        \* heap: the education entry objects, by reference
    activeSection,  \* App: useState activeSection
    newSkill,       \* Skills: useState newSkill (the text input)
    isSaving,       \* Preview: useState isSaving
    saveMessage,    \* Preview: useState saveMessage
    resumeId,       \* Preview: useState resumeId (0 is null)
    isConnected,    \* Preview: useState isConnected
    inflight,       \* save requests awaited by a handleSave call, in issue order
    probes,         \* health checks awaited by the mounted Preview (0 or 1)
    localStorage,   \* the browser's localStorage item 'resumeBackup'
    store,          \* the Store: the resumes collection, record i has _id i
    now,            \* the server's clock: Date.now()
    lastOp          \* the handler that ran last and what it did

vars == <<resumeData, expObjs, eduObjs, activeSection, newSkill, isSaving,
          saveMessage, resumeId, isConnected, inflight, probes, localStorage,
          store, now, lastOp>>

editorVars == <<resumeData, expObjs, eduObjs>>
previewVars == <<isSaving, saveMessage, resumeId, isConnected>>
ioVars == <<inflight, probes, localStorage, store, now>>

(***************************************************************************)
(* Bounds of the model.                                                    *)
(***************************************************************************)
MaxEntries == 2     \* longest experiences / education sequence explored
MaxResp == 2        \* longest responsibilities sequence explored
MaxSkills == 2      \* longest skills sequence explored
MaxLen == 2         \* longest text typed into the skill input
MaxInFlight == 2    \* most save requests outstanding at once
MaxIds == 2         \* most records the Store comes to hold
MaxClock == 2       \* latest reading of the server's clock

(***************************************************************************)
(* Values.                                                                 *)
(***************************************************************************)
null == "null"      \* the section argument of a whole-document merge

Fields == {"name", "title", "phone", "email", "location", "website",
           "summary", "experiences", "education", "skills"}

\* Key order of the resumeData object literal (JSON.stringify follows it).
FieldOrder == <<"name", "title", "phone", "email", "location", "website",
                "summary", "experiences", "education", "skills">>

ExperienceFields == {"company", "position", "duration"}
EducationFields == {"institution", "degree", "year"}

Chars == {"R", "G", " "}
Texts == UNION {[1..n -> Chars] : n \in 0..MaxLen}

\* Two entries of the suggestion catalog ("R" of Data Science; "G" stands
\* for any other entry): every catalog entry is non-empty and has no
\* surrounding whitespace.
skillCategories == {<<"R">>, <<"G">>}

\* A new experience entry / education entry, as the object literals give it.
NewExperience == [company |-> "", position |-> "", duration |-> "",
                  responsibilities |-> <<"">>]
NewEducation == [institution |-> "", degree |-> "", year |-> ""]

\* App: the initial resumeData; its one experience and one education entry
\* are heap objects 1.
InitialResume == [name |-> "", title |-> "", phone |-> "", email |-> "",
                  location |-> "", website |-> "", summary |-> "",
                  experiences |-> <<1>>, education |-> <<1>>,
                  skills |-> <<>>]

(***************************************************************************)
(* Helpers.                                                                *)
(***************************************************************************)
Range(s) == {s[i] : i \in DOMAIN s}

\* Array.prototype.filter((_, i) => i !== index)
FilterOut(s, index) ==
    [i \in 1..(Len(s) - 1) |-> IF i < index THEN s[i] ELSE s[i + 1]]

\* Array.prototype.includes
Includes(s, x) == \E i \in DOMAIN s : s[i] = x

\* String.prototype.trim, on a sequence of characters
RECURSIVE TrimLeft(_)
TrimLeft(s) == IF s # <<>> /\ Head(s) = " " THEN TrimLeft(Tail(s)) ELSE s

RECURSIVE TrimRight(_)
TrimRight(s) ==
    IF s # <<>> /\ s[Len(s)] = " " THEN TrimRight(SubSeq(s, 1, Len(s) - 1)) ELSE s

Trim(s) == TrimRight(TrimLeft(s))

\* A reference for a new object: the least one no object in use has.
FreshRef(used) == CHOOSE i \in 1..(Cardinality(used) + 1) :
                      i \notin used /\ \A j \in 1..(i - 1) : j \in used

\* The heap restricted to the objects still referenced (garbage collection).
Keep(objs, refs) == [r \in (DOMAIN objs) \cap refs |-> objs[r]]

\* References held by the closures of pending handleSave calls.
PendingExpRefs(reqs) == UNION {Range(reqs[i].data.experiences) : i \in DOMAIN reqs}
PendingEduRefs(reqs) == UNION {Range(reqs[i].data.education) : i \in DOMAIN reqs}

\* The value of a document object: references replaced by the objects.
Deref(data, exps, edus) ==
    [f \in DOMAIN data |->
        IF f = "experiences" THEN [i \in DOMAIN data.experiences |-> exps[data.experiences[i]]]
        ELSE IF f = "education" THEN [i \in DOMAIN data.education |-> edus[data.education[i]]]
        ELSE data[f]]

Document == Deref(resumeData, expObjs, eduObjs)

\* What a handler did: whether it called updateData, and with what; the
\* skill it was given (addSuggestion); the request it sent or saw complete
\* and what it wrote to localStorage (Preview).
Op(handler, called, section, data) ==
    [handler |-> handler, called |-> called, section |-> section, data |-> data,
     arg |-> <<>>, request |-> "none", outcome |-> "none", localWrite |-> "none"]

NoCall(handler) == Op(handler, FALSE, null, <<>>)

(***************************************************************************)
(* App.updateResumeData: the single update operation.                      *)
(***************************************************************************)
\* A merge that lets the old document win over the patch.
updateResumeData_prevWins(prev, section, data) ==
    IF section = null
    THEN [f \in (DOMAIN prev) \cup (DOMAIN data) |->
             IF f \in DOMAIN prev THEN prev[f] ELSE data[f]]
    ELSE [f \in (DOMAIN prev) \cup {section} |->
             IF f = section THEN data ELSE prev[f]]

\* A section replacement that also clears the summary.
updateResumeData_clearsSummary(prev, section, data) ==
    IF section = null
    THEN [f \in (DOMAIN prev) \cup (DOMAIN data) |->
             IF f \in DOMAIN data THEN data[f] ELSE prev[f]]
    ELSE [f \in (DOMAIN prev) \cup {section} |->
             IF f = section THEN data
             ELSE IF f = "summary" THEN "" ELSE prev[f]]

\* The function that setResumeData applies to the previous document:
\* {...prev, ...data} when section is null, {...prev, [section]: data} otherwise.
updateResumeData(prev, section, data) ==
    IF section = null
    THEN [f \in (DOMAIN prev) \cup (DOMAIN data) |->
             IF f \in DOMAIN data THEN data[f] ELSE prev[f]]
    ELSE [f \in (DOMAIN prev) \cup {section} |->
             IF f = section THEN data ELSE prev[f]]

\* A handler's call updateData(section, data).
updateData(handler, section, data) ==
    /\ resumeData' = updateResumeData(resumeData, section, data)
    /\ lastOp' = Op(handler, TRUE, section, data)

(***************************************************************************)
(* App: the navigation sidebar.  Choosing another section unmounts the     *)
(* component shown and mounts the chosen one with fresh state; mounting    *)
(* Preview runs its effect, which calls checkConnection.  A handleSave or  *)
(* checkConnection call that is still awaiting its request goes on after   *)
(* its component is unmounted; its state updates then have no effect, so   *)
(* an abandoned checkConnection call changes nothing when it resumes.      *)
(***************************************************************************)
Orphaned(reqs) == [i \in DOMAIN reqs |-> [reqs[i] EXCEPT !.alive = FALSE]]

setActiveSection(section) ==
    /\ lastOp' = NoCall("setActiveSection")
    /\ IF section = activeSection
       THEN UNCHANGED <<activeSection, newSkill, previewVars, inflight, probes>>
       ELSE /\ activeSection' = section
            /\ newSkill' = <<>>
            /\ isSaving' = FALSE
            /\ saveMessage' = ""
            /\ resumeId' = 0
            /\ isConnected' = TRUE
            /\ inflight' = Orphaned(inflight)
            /\ probes' = IF section = "preview" THEN 1 ELSE 0
    /\ UNCHANGED <<editorVars, localStorage, store, now>>

(***************************************************************************)
(* BasicDetails and Summary.                                               *)
(***************************************************************************)
BasicDetails_handleChange(name, value) ==
    /\ activeSection = "basic"
    /\ updateData("BasicDetails.handleChange", null,
                  [f \in (DOMAIN resumeData) \cup {name} |->
                      IF f = name THEN value ELSE resumeData[f]])
    /\ UNCHANGED <<expObjs, eduObjs, activeSection, newSkill, previewVars, ioVars>>

Summary_handleChange(value) ==
    /\ activeSection = "summary"
    /\ updateData("Summary.handleChange", "summary", value)
    /\ UNCHANGED <<expObjs, eduObjs, activeSection, newSkill, previewVars, ioVars>>

(***************************************************************************)
(* Experience.  handleExperienceChange, handleResponsibilityChange,        *)
(* addResponsibility and removeResponsibility copy the experiences array   *)
(* but write to the entry objects the copy shares with data.experiences.   *)
(***************************************************************************)
handleExperienceChange(index, name, value) ==
    /\ activeSection = "experience"
    /\ index \in DOMAIN resumeData.experiences
    /\ LET newExperiences == resumeData.experiences
           obj == newExperiences[index]
       IN  /\ expObjs' = [expObjs EXCEPT ![obj][name] = value]
           /\ updateData("handleExperienceChange", "experiences", newExperiences)
    /\ UNCHANGED <<eduObjs, activeSection, newSkill, previewVars, ioVars>>

handleResponsibilityChange(expIndex, respIndex, value) ==
    /\ activeSection = "experience"
    /\ expIndex \in DOMAIN resumeData.experiences
    /\ LET newExperiences == resumeData.experiences
           obj == newExperiences[expIndex]
       IN  /\ respIndex \in DOMAIN expObjs[obj].responsibilities
           /\ expObjs' = [expObjs EXCEPT ![obj].responsibilities[respIndex] = value]
           /\ updateData("handleResponsibilityChange", "experiences", newExperiences)
    /\ UNCHANGED <<eduObjs, activeSection, newSkill, previewVars, ioVars>>

addExperience ==
    /\ activeSection = "experience"
    /\ Len(resumeData.experiences) < MaxEntries
    /\ LET obj == FreshRef(DOMAIN expObjs)
       IN  /\ expObjs' = (obj :> NewExperience) @@ expObjs
           /\ updateData("addExperience", "experiences",
                         Append(resumeData.experiences, obj))
    /\ UNCHANGED <<eduObjs, activeSection, newSkill, previewVars, ioVars>>

addResponsibility(index) ==
    /\ activeSection = "experience"
    /\ index \in DOMAIN resumeData.experiences
    /\ LET newExperiences == resumeData.experiences
           obj == newExperiences[index]
       IN  /\ Len(expObjs[obj].responsibilities) < MaxResp
           /\ expObjs' = [expObjs EXCEPT
                             ![obj].responsibilities = Append(@, "")]
           /\ updateData("addResponsibility", "experiences", newExperiences)
    /\ UNCHANGED <<eduObjs, activeSection, newSkill, previewVars, ioVars>>

\* removeExperience without its length test.
removeExperience_noFloor(index) ==
    /\ activeSection = "experience"
    /\ index \in DOMAIN resumeData.experiences
    /\ LET newExperiences == FilterOut(resumeData.experiences, index)
       IN  /\ updateData("removeExperience", "experiences", newExperiences)
           /\ expObjs' = Keep(expObjs, Range(newExperiences)
                                         \cup PendingExpRefs(inflight))
    /\ UNCHANGED <<eduObjs, activeSection, newSkill, previewVars, ioVars>>

\* The handler is modelled as callable in every state; the component renders
\* its button only while data.experiences.length > 1.
removeExperience(index) ==
    /\ activeSection = "experience"
    /\ index \in DOMAIN resumeData.experiences
    /\ IF Len(resumeData.experiences) > 1
       THEN LET newExperiences == FilterOut(resumeData.experiences, index)
            IN  /\ updateData("removeExperience", "experiences", newExperiences)
                /\ expObjs' = Keep(expObjs, Range(newExperiences)
                                              \cup PendingExpRefs(inflight))
       ELSE /\ lastOp' = NoCall("removeExperience")
            /\ UNCHANGED <<resumeData, expObjs>>
    /\ UNCHANGED <<eduObjs, activeSection, newSkill, previewVars, ioVars>>

\* removeResponsibility filtering out the entry after the given one.
removeResponsibility_offByOne(expIndex, respIndex) ==
    /\ activeSection = "experience"
    /\ expIndex \in DOMAIN resumeData.experiences
    /\ LET newExperiences == resumeData.experiences
           obj == newExperiences[expIndex]
       IN  /\ respIndex \in DOMAIN expObjs[obj].responsibilities
           /\ IF Len(expObjs[obj].responsibilities) > 1
              THEN /\ expObjs' = [expObjs EXCEPT
                                     ![obj].responsibilities =
                                         FilterOut(@, (respIndex % Len(@)) + 1)]
                   /\ resumeData' = updateResumeData(resumeData, "experiences",
                                                      newExperiences)
                   /\ lastOp' = [Op("removeResponsibility", TRUE, "experiences",
                                    newExperiences)
                                    EXCEPT !.arg = <<expIndex, respIndex>>]
              ELSE /\ lastOp' = NoCall("removeResponsibility")
                   /\ UNCHANGED <<resumeData, expObjs>>
    /\ UNCHANGED <<eduObjs, activeSection, newSkill, previewVars, ioVars>>

\* Callable in every state; the component renders the button only while the
\* entry has more than one responsibility.  A call that removes records
\* its indices.
removeResponsibility(expIndex, respIndex) ==
    /\ activeSection = "experience"
    /\ expIndex \in DOMAIN resumeData.experiences
    /\ LET newExperiences == resumeData.experiences
           obj == newExperiences[expIndex]
       IN  /\ respIndex \in DOMAIN expObjs[obj].responsibilities
           /\ IF Len(expObjs[obj].responsibilities) > 1
              THEN /\ expObjs' = [expObjs EXCEPT
                                     ![obj].responsibilities = FilterOut(@, respIndex)]
                   /\ resumeData' = updateResumeData(resumeData, "experiences",
                                                      newExperiences)
                   /\ lastOp' = [Op("removeResponsibility", TRUE, "experiences",
                                    newExperiences)
                                    EXCEPT !.arg = <<expIndex, respIndex>>]
              ELSE /\ lastOp' = NoCall("removeResponsibility")
                   /\ UNCHANGED <<resumeData, expObjs>>
    /\ UNCHANGED <<eduObjs, activeSection, newSkill, previewVars, ioVars>>

(***************************************************************************)
(* Education.  handleChange writes to the shared entry object as well.     *)
(***************************************************************************)
Education_handleChange(index, name, value) ==
    /\ activeSection = "education"
    /\ index \in DOMAIN resumeData.education
    /\ LET newEducation == resumeData.education
           obj == newEducation[index]
       IN  /\ eduObjs' = [eduObjs EXCEPT ![obj][name] = value]
           /\ updateData("Education.handleChange", "education", newEducation)
    /\ UNCHANGED <<expObjs, activeSection, newSkill, previewVars, ioVars>>

addEducation ==
    /\ activeSection = "education"
    /\ Len(resumeData.education) < MaxEntries
    /\ LET obj == FreshRef(DOMAIN eduObjs)
       IN  /\ eduObjs' = (obj :> NewEducation) @@ eduObjs
           /\ updateData("addEducation", "education",
                         Append(resumeData.education, obj))
    /\ UNCHANGED <<expObjs, activeSection, newSkill, previewVars, ioVars>>

\* removeEducation without its length test.
removeEducation_noFloor(index) ==
    /\ activeSection = "education"
    /\ index \in DOMAIN resumeData.education
    /\ LET newEducation == FilterOut(resumeData.education, index)
       IN  /\ updateData("removeEducation", "education", newEducation)
           /\ eduObjs' = Keep(eduObjs, Range(newEducation)
                                         \cup PendingEduRefs(inflight))
    /\ UNCHANGED <<expObjs, activeSection, newSkill, previewVars, ioVars>>

\* Callable in every state, like removeExperience.
removeEducation(index) ==
    /\ activeSection = "education"
    /\ index \in DOMAIN resumeData.education
    /\ IF Len(resumeData.education) > 1
       THEN LET newEducation == FilterOut(resumeData.education, index)
            IN  /\ updateData("removeEducation", "education", newEducation)
                /\ eduObjs' = Keep(eduObjs, Range(newEducation)
                                              \cup PendingEduRefs(inflight))
       ELSE /\ lastOp' = NoCall("removeEducation")
            /\ UNCHANGED <<resumeData, eduObjs>>
    /\ UNCHANGED <<expObjs, activeSection, newSkill, previewVars, ioVars>>

(***************************************************************************)
(* Skills.                                                                 *)
(***************************************************************************)
\* The text input's onChange.
setNewSkill(value) ==
    /\ activeSection = "skills"
    /\ newSkill' = value
    /\ lastOp' = NoCall("setNewSkill")
    /\ UNCHANGED <<editorVars, activeSection, previewVars, ioVars>>

\* handleAddSkill looking the untrimmed text up.
handleAddSkill_untrimmedLookup ==
    /\ activeSection = "skills"
    /\ LET trimmedSkill == Trim(newSkill)
       IN  IF trimmedSkill # <<>> /\ ~Includes(resumeData.skills, newSkill)
           THEN /\ Len(resumeData.skills) < MaxSkills
                /\ resumeData' = updateResumeData(resumeData, "skills",
                                                   Append(resumeData.skills, trimmedSkill))
                /\ lastOp' = [Op("handleAddSkill", TRUE, "skills",
                                 Append(resumeData.skills, trimmedSkill))
                                 EXCEPT !.arg = newSkill]
                /\ newSkill' = <<>>
           ELSE /\ lastOp' = NoCall("handleAddSkill")
                /\ UNCHANGED <<resumeData, newSkill>>
    /\ UNCHANGED <<expObjs, eduObjs, activeSection, previewVars, ioVars>>

\* handleAddSkill appending the text as it was typed.
handleAddSkill_appendsTyped ==
    /\ activeSection = "skills"
    /\ LET trimmedSkill == Trim(newSkill)
       IN  IF trimmedSkill # <<>> /\ ~Includes(resumeData.skills, trimmedSkill)
           THEN /\ Len(resumeData.skills) < MaxSkills
                /\ resumeData' = updateResumeData(resumeData, "skills",
                                                   Append(resumeData.skills, newSkill))
                /\ lastOp' = [Op("handleAddSkill", TRUE, "skills",
                                 Append(resumeData.skills, newSkill))
                                 EXCEPT !.arg = newSkill]
                /\ newSkill' = <<>>
           ELSE /\ lastOp' = NoCall("handleAddSkill")
                /\ UNCHANGED <<resumeData, newSkill>>
    /\ UNCHANGED <<expObjs, eduObjs, activeSection, previewVars, ioVars>>

\* Reached by the Add button and by the Enter key (handleKeyPress); a call
\* that adds records the text that was typed.
handleAddSkill ==
    /\ activeSection = "skills"
    /\ LET trimmedSkill == Trim(newSkill)
       IN  IF trimmedSkill # <<>> /\ ~Includes(resumeData.skills, trimmedSkill)
           THEN /\ Len(resumeData.skills) < MaxSkills
                /\ resumeData' = updateResumeData(resumeData, "skills",
                                                   Append(resumeData.skills, trimmedSkill))
                /\ lastOp' = [Op("handleAddSkill", TRUE, "skills",
                                 Append(resumeData.skills, trimmedSkill))
                                 EXCEPT !.arg = newSkill]
                /\ newSkill' = <<>>
           ELSE /\ lastOp' = NoCall("handleAddSkill")
                /\ UNCHANGED <<resumeData, newSkill>>
    /\ UNCHANGED <<expObjs, eduObjs, activeSection, previewVars, ioVars>>

handleRemoveSkill(index) ==
    /\ activeSection = "skills"
    /\ index \in DOMAIN resumeData.skills
    /\ updateData("handleRemoveSkill", "skills", FilterOut(resumeData.skills, index))
    /\ UNCHANGED <<expObjs, eduObjs, activeSection, newSkill, previewVars, ioVars>>

\* addSuggestion without its includes test.
addSuggestion_noLookup(skill) ==
    /\ activeSection = "skills"
    /\ Len(resumeData.skills) < MaxSkills
    /\ resumeData' = updateResumeData(resumeData, "skills",
                                       Append(resumeData.skills, skill))
    /\ lastOp' = [Op("addSuggestion", TRUE, "skills",
                     Append(resumeData.skills, skill)) EXCEPT !.arg = skill]
    /\ UNCHANGED <<expObjs, eduObjs, activeSection, newSkill, previewVars, ioVars>>

\* Callable in every state; the suggestion's button is disabled while the
\* skill is included.
addSuggestion(skill) ==
    /\ activeSection = "skills"
    /\ IF ~Includes(resumeData.skills, skill)
       THEN /\ Len(resumeData.skills) < MaxSkills
            /\ resumeData' = updateResumeData(resumeData, "skills",
                                               Append(resumeData.skills, skill))
            /\ lastOp' = [Op("addSuggestion", TRUE, "skills",
                             Append(resumeData.skills, skill)) EXCEPT !.arg = skill]
       ELSE /\ lastOp' = [NoCall("addSuggestion") EXCEPT !.arg = skill]
            /\ UNCHANGED resumeData
    /\ UNCHANGED <<expObjs, eduObjs, activeSection, newSkill, previewVars, ioVars>>

(***************************************************************************)
(* resumeService: the localStorage fallback.                               *)
(***************************************************************************)
\* new Date().toISOString(): the time of the write; its value plays no part.
toISOString == "2025-01-01T00:00:00.000Z"

\* JSON.stringify of an object: its keys and values in key order.
RECURSIVE JSON_stringify(_, _)
JSON_stringify(obj, keys) ==
    IF keys = <<>> THEN <<>>
    ELSE IF Head(keys) \in DOMAIN obj
         THEN <<<<Head(keys), obj[Head(keys)]>>>> \o JSON_stringify(obj, Tail(keys))
         ELSE JSON_stringify(obj, Tail(keys))

\* JSON.parse of such a text: for each key, the value the text gives last.
JSON_parse(text) ==
    [k \in {text[i][1] : i \in DOMAIN text} |->
        text[CHOOSE i \in DOMAIN text :
                 text[i][1] = k /\ \A j \in DOMAIN text : text[j][1] = k => j <= i][2]]

\* saveToLocalStorage(resumeData): the item after the call.  setItem may
\* throw (quota, storage disabled); the catch block logs and the item stays.
saveToLocalStorage(data, written) ==
    LET dataToSave == ("lastSaved" :> toISOString) @@ Deref(data, expObjs, eduObjs)
    IN  IF written
        THEN JSON_stringify(dataToSave, FieldOrder \o <<"lastSaved">>)
        ELSE localStorage

\* A text JSON.parse throws a SyntaxError on: one that breaks off within a
\* key/value pair.
SyntaxError(text) == \E i \in DOMAIN text : Len(text[i]) # 2

\* A loadFromLocalStorage without its try / catch.
loadFromLocalStorage_noCatch(readable) ==
    IF ~readable \/ (localStorage # <<>> /\ SyntaxError(localStorage))
    THEN [threw |-> TRUE, found |-> FALSE, data |-> <<>>]
    ELSE IF localStorage # <<>>
    THEN [threw |-> FALSE, found |-> TRUE, data |-> JSON_parse(localStorage)]
    ELSE [threw |-> FALSE, found |-> FALSE, data |-> <<>>]

\* loadFromLocalStorage(): found is FALSE for null.  getItem or JSON.parse
\* may throw; the catch block logs and returns null.
loadFromLocalStorage(readable) ==
    IF ~readable \/ (localStorage # <<>> /\ SyntaxError(localStorage))
    THEN [threw |-> FALSE, found |-> FALSE, data |-> <<>>]
    ELSE IF localStorage # <<>>
    THEN [threw |-> FALSE, found |-> TRUE, data |-> JSON_parse(localStorage)]
    ELSE [threw |-> FALSE, found |-> FALSE, data |-> <<>>]

(***************************************************************************)
(* server.js: the Store.                                                   *)
(***************************************************************************)
\* The schema's trim setter on the strings the model uses.
StrTrim(s) == CASE s = " " -> ""
                [] s = " a" -> "a"
                [] s = "a " -> "a"
                [] OTHER -> s

CastExperience(e) ==
    [company |-> StrTrim(e.company), position |-> StrTrim(e.position),
     duration |-> StrTrim(e.duration),
     responsibilities |-> [i \in DOMAIN e.responsibilities |->
                              StrTrim(e.responsibilities[i])]]

CastEducation(e) ==
    [institution |-> StrTrim(e.institution), degree |-> StrTrim(e.degree),
     year |-> StrTrim(e.year)]

\* The schema's paths createdAt and updatedAt.
Timestamps == {"createdAt", "updatedAt"}

\* new Resume(req.body), and the cast of an update: the body cast to the
\* schema.  A createdAt or updatedAt that the body has is a path of the
\* schema like any other and is kept.
Cast(body) ==
    [f \in Fields \cup (Timestamps \cap DOMAIN body) |->
        IF f \in Timestamps THEN body[f]
        ELSE IF f = "experiences"
        THEN [i \in DOMAIN body.experiences |-> CastExperience(body.experiences[i])]
        ELSE IF f = "education"
        THEN [i \in DOMAIN body.education |-> CastEducation(body.education[i])]
        ELSE IF f = "skills"
        THEN [i \in DOMAIN body.skills |-> Trim(body.skills[i])]
        ELSE StrTrim(body[f])]

\* The schema's required validators, run on the cast document.
Validates(doc) ==
    /\ doc.name # ""
    /\ doc.email # ""
    /\ \A i \in DOMAIN doc.experiences :
           \A f \in ExperienceFields : doc.experiences[i][f] # ""
    /\ \A i \in DOMAIN doc.education :
           \A f \in EducationFields : doc.education[i][f] # ""

\* The paths a ValidationError's message names ('Path `name` is
\* required.'): the required paths that are empty in the cast document.
ValidationErrors(doc) ==
    {f \in {"name", "email"} : doc[f] = ""}
    \cup UNION {{"experiences." \o ToString(i - 1) \o "." \o f :
                    f \in {g \in ExperienceFields : doc.experiences[i][g] = ""}} :
                i \in DOMAIN doc.experiences}
    \cup UNION {{"education." \o ToString(i - 1) \o "." \o f :
                    f \in {g \in EducationFields : doc.education[i][g] = ""}} :
                i \in DOMAIN doc.education}

\* Identifiers are numbers in the model.  A positive number stands for a
\* string of 24 hex digits, record i having _id i; NotAnObjectId stands for
\* any other string, such as 'nonexistent-id'; 0 stands for null and ''.
NotAnObjectId == 0 - 1

\* The cast of :id to ObjectId that findById and findByIdAndUpdate make.
IsObjectId(id) == id > 0

\* res.status(status).json({success, message, error, data}); error holds the
\* paths that error.message names, store the collection after the request.
Reply(status, message, error, data, records) ==
    [status |-> status, message |-> message, error |-> error, data |-> data,
     store |-> records]

\* A POST that stores req.body as it came, without the schema's setters.
POST_resumes_uncast(records, t, body) ==
    LET doc == Cast(body)
        resume == [_id |-> Len(records) + 1, updatedAt |-> t] @@ body
                      @@ [createdAt |-> t]
    IN  IF Validates(doc)
        THEN Reply(201, "Resume saved successfully", {}, resume,
                   Append(records, resume))
        ELSE Reply(400, "Failed to save resume", ValidationErrors(doc), <<>>, records)

\* app.post('/api/resumes'): new Resume(req.body), the pre-save hook
\* (updatedAt = Date.now()), the createdAt default for a body that has no
\* createdAt, resume.save().
POST_resumes(records, t, body) ==
    LET doc == Cast(body)
        resume == [_id |-> Len(records) + 1, updatedAt |-> t] @@ doc
                      @@ [createdAt |-> t]
    IN  IF Validates(doc)
        THEN Reply(201, "Resume saved successfully", {}, resume,
                   Append(records, resume))
        ELSE Reply(400, "Failed to save resume", ValidationErrors(doc), <<>>, records)

\* app.get('/api/resumes/:id'): Resume.findById.
GET_resume(records, id) ==
    IF ~IsObjectId(id)
    THEN Reply(500, "Failed to load resume", {"_id"}, <<>>, records)
    ELSE IF id \notin DOMAIN records
    THEN Reply(404, "Resume not found", {}, <<>>, records)
    ELSE Reply(200, "", {}, records[id], records)

\* A findByIdAndUpdate that keeps the stored summary when the body's is ''.
PUT_resume_keepsSummary(records, t, id, body) ==
    LET doc == Cast(body)
    IN  IF ~IsObjectId(id)
        THEN Reply(400, "Failed to update resume", {"_id"}, <<>>, records)
        ELSE IF ~Validates(doc)
        THEN Reply(400, "Failed to update resume", ValidationErrors(doc), <<>>, records)
        ELSE IF id \notin DOMAIN records
        THEN Reply(404, "Resume not found", {}, <<>>, records)
        ELSE LET resume == [updatedAt |-> t]
                               @@ [f \in {g \in DOMAIN doc : g # "summary" \/ doc[g] # ""}
                                      |-> doc[f]]
                               @@ records[id]
             IN  Reply(200, "Resume updated successfully", {}, resume,
                       [records EXCEPT ![id] = resume])

\* A findByIdAndUpdate without runValidators.
PUT_resume_noValidators(records, t, id, body) ==
    LET doc == Cast(body)
    IN  IF ~IsObjectId(id)
        THEN Reply(400, "Failed to update resume", {"_id"}, <<>>, records)
        ELSE IF id \notin DOMAIN records
        THEN Reply(404, "Resume not found", {}, <<>>, records)
        ELSE LET resume == [updatedAt |-> t] @@ doc @@ records[id]
             IN  Reply(200, "Resume updated successfully", {}, resume,
                       [records EXCEPT ![id] = resume])

\* app.put('/api/resumes/:id'): Resume.findByIdAndUpdate(id, {...req.body,
\* updatedAt: Date.now()}, {new: true, runValidators: true}).  The id is
\* cast, then the update is cast and validated, then the query runs.
PUT_resume(records, t, id, body) ==
    LET doc == Cast(body)
    IN  IF ~IsObjectId(id)
        THEN Reply(400, "Failed to update resume", {"_id"}, <<>>, records)
        ELSE IF ~Validates(doc)
        THEN Reply(400, "Failed to update resume", ValidationErrors(doc), <<>>, records)
        ELSE IF id \notin DOMAIN records
        THEN Reply(404, "Resume not found", {}, <<>>, records)
        ELSE LET resume == [updatedAt |-> t] @@ doc @@ records[id]
             IN  Reply(200, "Resume updated successfully", {}, resume,
                       [records EXCEPT ![id] = resume])

\* .select('name title email createdAt updatedAt'), with the _id.
SummaryOf(resume) ==
    [f \in {"_id", "name", "title", "email", "createdAt", "updatedAt"} |-> resume[f]]

\* A find().sort({updatedAt: 1}): oldest first.
Listings_ascending(records) ==
    LET n == Len(records)
        orders == {p \in [1..n -> 1..n] :
                      /\ \A i, j \in 1..n : i # j => p[i] # p[j]
                      /\ \A i, j \in 1..n :
                             i < j => records[p[i]].updatedAt <= records[p[j]].updatedAt}
    IN  {[i \in 1..n |-> SummaryOf(records[p[i]])] : p \in orders}

\* Resume.find().sort({updatedAt: -1}).select(...): the results the query
\* can give; records of equal updatedAt come in either order.
Listings(records) ==
    LET n == Len(records)
        orders == {p \in [1..n -> 1..n] :
                      /\ \A i, j \in 1..n : i # j => p[i] # p[j]
                      /\ \A i, j \in 1..n :
                             i < j => records[p[i]].updatedAt >= records[p[j]].updatedAt}
    IN  {[i \in 1..n |-> SummaryOf(records[p[i]])] : p \in orders}

\* app.get('/api/resumes'), answering with data.
GET_resumes(records, data) == Reply(200, "", {}, data, records)

\* app.get('/api/health').
GET_health(records) == Reply(200, "Resume Builder API is running", {}, <<>>, records)

(***************************************************************************)
(* resumeService: the gateway.  Every function is given the reply its      *)
(* request gets; NoReply is a fetch that rejects.                          *)
(***************************************************************************)
NoReply(records) == Reply(0, "Failed to fetch", {}, <<>>, records)

\* throw new Error(message), before or after the request
Thrown(message, sent, reply) ==
    [threw |-> TRUE, message |-> message, data |-> <<>>, sent |-> sent,
     reply |-> reply]

\* return data
Returned(data, reply) ==
    [threw |-> FALSE, message |-> "", data |-> data, sent |-> TRUE, reply |-> reply]

\* apiRequest: fetch, response.json(), the response.ok test.
apiRequest(reply) ==
    IF reply.status = 0 THEN Thrown("Failed to fetch", TRUE, reply)
    ELSE IF reply.status \notin 200..299 THEN Thrown(reply.message, TRUE, reply)
    ELSE Returned(reply, reply)

\* !resumeData.name && !resumeData.email
MissingRequired_both(data) == data.name = "" /\ data.email = ""

\* !resumeData.name || !resumeData.email: saveResume's and handleSave's test.
MissingRequired(data) == data.name = "" \/ data.email = ""

\* A saveResume without its test of the required fields.
saveResume_noPrecheck(records, resumeData_, reply) ==
    LET response == apiRequest(reply)
    IN  IF response.threw THEN response
        ELSE Returned(response.data.data, reply)

saveResume(records, resumeData_, reply) ==
    IF MissingRequired(resumeData_)
    THEN Thrown("Name and email are required fields", FALSE, NoReply(records))
    ELSE LET response == apiRequest(reply)
         IN  IF response.threw THEN response
             ELSE Returned(response.data.data, reply)

loadResume(records, resumeId_, reply) ==
    IF resumeId_ = 0
    THEN Thrown("Resume ID is required", FALSE, NoReply(records))
    ELSE LET response == apiRequest(reply)
         IN  IF response.threw THEN response
             ELSE Returned(response.data.data, reply)

updateResume(records, resumeId_, reply) ==
    IF resumeId_ = 0
    THEN Thrown("Resume ID is required", FALSE, NoReply(records))
    ELSE LET response == apiRequest(reply)
         IN  IF response.threw THEN response
             ELSE Returned(response.data.data, reply)

getAllResumes(reply) ==
    LET response == apiRequest(reply)
    IN  IF response.threw THEN response
        ELSE Returned(response.data.data, reply)

\* A healthCheck without its catch block.
healthCheck_noCatch(reply) ==
    LET response == apiRequest(reply)
    IN  IF response.threw THEN response
        ELSE Returned([isConnected |-> TRUE], reply)

\* healthCheck: {isConnected: true, ...response} or, from the catch block,
\* {isConnected: false, error}.
healthCheck(reply) ==
    LET response == apiRequest(reply)
    IN  IF response.threw THEN Returned([isConnected |-> FALSE], reply)
        ELSE Returned([isConnected |-> TRUE], reply)

(***************************************************************************)
(* Preview.                                                                *)
(***************************************************************************)
\* The save button's disabled attribute without the in-flight flag.
SaveButtonDisabled_noFlag == resumeData.name = "" /\ resumeData.email = ""

\* The save button's disabled attribute.
SaveButtonDisabled == isSaving \/ (resumeData.name = "" /\ resumeData.email = "")

SaveFailed(message) == "Save failed: " \o message \o " (Saved locally as backup)"

PreviewOp(handler, request, outcome, localWrite, body) ==
    [Op(handler, FALSE, null, body) EXCEPT
        !.request = request, !.outcome = outcome, !.localWrite = localWrite]

\* The save button's onClick, up to the await.
handleSave ==
    /\ activeSection = "preview"
    /\ ~SaveButtonDisabled
    /\ IF MissingRequired(resumeData)
       THEN /\ saveMessage' = "Name and email are required to save"
            /\ lastOp' = PreviewOp("handleSave", "none", "none", "none", <<>>)
            /\ UNCHANGED <<isSaving, inflight, localStorage>>
       ELSE IF resumeId = 0 /\ MissingRequired(resumeData)
       THEN \* saveResume throws before it sends: the catch and finally blocks
            \E written \in BOOLEAN :
               /\ saveMessage' = SaveFailed("Name and email are required fields")
               /\ localStorage' = saveToLocalStorage(resumeData, written)
               /\ lastOp' = PreviewOp("handleSave", "none", "failed",
                                      IF written THEN "written" ELSE "failed", <<>>)
               /\ UNCHANGED <<isSaving, inflight>>
       ELSE /\ Len(inflight) < MaxInFlight
            /\ isSaving' = TRUE
            /\ saveMessage' = ""
            /\ inflight' = Append(inflight,
                   [kind |-> IF resumeId # 0 THEN "update" ELSE "create",
                    id |-> resumeId,
                    body |-> Document,
                    data |-> resumeData,
                    alive |-> TRUE])
            /\ lastOp' = PreviewOp("handleSave",
                                   IF resumeId # 0 THEN "update" ELSE "create",
                                   "none", "none", Document)
            /\ UNCHANGED localStorage
    /\ UNCHANGED <<editorVars, activeSection, newSkill, resumeId, isConnected,
                   probes, store, now>>

\* The rest of a handleSave call whose request i was answered by the Store:
\* POST /api/resumes or PUT /api/resumes/:id, then the try block's tail or
\* the catch block, then the finally block.
saveAnswered(i, written) ==
    /\ i \in DOMAIN inflight
    /\ LET r == inflight[i]
           reply == IF r.kind = "create" THEN POST_resumes(store, now, r.body)
                    ELSE PUT_resume(store, now, r.id, r.body)
           savedResume == IF r.kind = "create" THEN saveResume(store, r.body, reply)
                          ELSE updateResume(store, r.id, reply)
           accepted == ~savedResume.threw
           rest == FilterOut(inflight, i)
       IN  /\ Len(reply.store) <= MaxIds
           /\ store' = reply.store
           /\ IF r.alive
              THEN /\ isSaving' = FALSE
                   /\ resumeId' = IF accepted /\ r.kind = "create"
                                  THEN savedResume.data._id ELSE resumeId
                   /\ saveMessage' =
                          IF ~accepted
                          THEN SaveFailed(savedResume.message)
                          ELSE IF r.kind = "create"
                          THEN "Resume saved! ID: " \o ToString(savedResume.data._id)
                          ELSE "Resume updated successfully!"
              ELSE UNCHANGED <<isSaving, resumeId, saveMessage>>
           /\ localStorage' = saveToLocalStorage(r.data, written)
           /\ inflight' = rest
           /\ expObjs' = Keep(expObjs, Range(resumeData.experiences)
                                         \cup PendingExpRefs(rest))
           /\ eduObjs' = Keep(eduObjs, Range(resumeData.education)
                                         \cup PendingEduRefs(rest))
           /\ lastOp' = PreviewOp("handleSave", r.kind,
                                  IF accepted THEN "saved" ELSE "failed",
                                  IF written THEN "written" ELSE "failed", r.body)
    /\ UNCHANGED <<resumeData, activeSection, newSkill, isConnected, probes, now>>

\* A handleSave without its finally block, on the catch path.
saveUnreachable_noFinally(i, written) ==
    /\ i \in DOMAIN inflight
    /\ LET r == inflight[i]
           rest == FilterOut(inflight, i)
       IN  /\ IF r.alive
              THEN /\ UNCHANGED isSaving
                   /\ saveMessage' = SaveFailed("Failed to fetch")
              ELSE UNCHANGED <<isSaving, saveMessage>>
           /\ localStorage' = saveToLocalStorage(r.data, written)
           /\ inflight' = rest
           /\ expObjs' = Keep(expObjs, Range(resumeData.experiences)
                                         \cup PendingExpRefs(rest))
           /\ eduObjs' = Keep(eduObjs, Range(resumeData.education)
                                         \cup PendingEduRefs(rest))
           /\ lastOp' = PreviewOp("handleSave", r.kind, "failed",
                                  IF written THEN "written" ELSE "failed", r.body)
    /\ UNCHANGED <<resumeData, activeSection, newSkill, resumeId, isConnected,
                   probes, store, now>>

\* The rest of a handleSave call whose request i did not reach the Store
\* (fetch rejects): the catch block, then the finally block.
saveUnreachable(i, written) ==
    /\ i \in DOMAIN inflight
    /\ LET r == inflight[i]
           rest == FilterOut(inflight, i)
       IN  /\ IF r.alive
              THEN /\ isSaving' = FALSE
                   /\ saveMessage' = SaveFailed("Failed to fetch")
              ELSE UNCHANGED <<isSaving, saveMessage>>
           /\ localStorage' = saveToLocalStorage(r.data, written)
           /\ inflight' = rest
           /\ expObjs' = Keep(expObjs, Range(resumeData.experiences)
                                         \cup PendingExpRefs(rest))
           /\ eduObjs' = Keep(eduObjs, Range(resumeData.education)
                                         \cup PendingEduRefs(rest))
           /\ lastOp' = PreviewOp("handleSave", r.kind, "failed",
                                  IF written THEN "written" ELSE "failed", r.body)
    /\ UNCHANGED <<resumeData, activeSection, newSkill, resumeId, isConnected,
                   probes, store, now>>

\* The rest of the mounted Preview's checkConnection call, its request
\* having got reply: setIsConnected(health.isConnected), unless healthCheck
\* threw.
checkConnection(reply) ==
    /\ probes > 0
    /\ probes' = probes - 1
    /\ LET health == healthCheck(reply)
       IN  /\ isConnected' = IF health.threw THEN isConnected
                             ELSE health.data.isConnected
           /\ lastOp' = PreviewOp("checkConnection", "health",
                                  IF health.threw THEN "threw"
                                  ELSE IF health.data.isConnected THEN "connected"
                                  ELSE "failed",
                                  "none", <<>>)
    /\ UNCHANGED <<editorVars, activeSection, newSkill, isSaving, saveMessage,
                   resumeId, inflight, localStorage, store, now>>

\* The effect's 30-second interval, while Preview is mounted.
autoSaveInterval(written) ==
    /\ activeSection = "preview"
    /\ IF resumeData.name # "" \/ resumeData.email # ""
       THEN /\ localStorage' = saveToLocalStorage(resumeData, written)
            /\ lastOp' = PreviewOp("autoSaveInterval", "none", "none",
                                   IF written THEN "written" ELSE "failed", <<>>)
       ELSE /\ UNCHANGED localStorage
            /\ lastOp' = PreviewOp("autoSaveInterval", "none", "none", "none", <<>>)
    /\ UNCHANGED <<editorVars, activeSection, newSkill, previewVars, inflight,
                   probes, store, now>>

\* A loadFromBackup that puts the backup's name into the document.
loadFromBackup_restores(readable) ==
    /\ activeSection = "preview"
    /\ LET backup == loadFromLocalStorage(readable)
       IN  IF backup.found
           THEN /\ saveMessage' = "Found local backup! Refresh the page to load it."
                /\ resumeData' = [resumeData EXCEPT !.name = backup.data.name]
           ELSE /\ saveMessage' = "No local backup found"
                /\ UNCHANGED resumeData
    /\ lastOp' = PreviewOp("loadFromBackup", "none", "none",
                           IF readable THEN "read" ELSE "failed", <<>>)
    /\ UNCHANGED <<expObjs, eduObjs, activeSection, newSkill, isSaving, resumeId,
                   isConnected, ioVars>>

\* The Load Backup button.
loadFromBackup(readable) ==
    /\ activeSection = "preview"
    /\ LET backup == loadFromLocalStorage(readable)
       IN  /\ saveMessage' = IF backup.threw THEN saveMessage
                             ELSE IF backup.found
                             THEN "Found local backup! Refresh the page to load it."
                             ELSE "No local backup found"
           /\ lastOp' = PreviewOp("loadFromBackup", "none",
                                  IF backup.threw THEN "threw" ELSE "none",
                                  IF readable THEN "read" ELSE "failed", <<>>)
    /\ UNCHANGED <<editorVars, activeSection, newSkill, isSaving, resumeId,
                   isConnected, ioVars>>

\* A setTimeout(() => setSaveMessage(''), ...) callback of the mounted Preview.
clearSaveMessage ==
    /\ activeSection = "preview"
    /\ saveMessage # ""
    /\ saveMessage' = ""
    /\ lastOp' = PreviewOp("setTimeout", "none", "none", "none", <<>>)
    /\ UNCHANGED <<editorVars, activeSection, newSkill, isSaving, resumeId,
                   isConnected, ioVars>>

(***************************************************************************)
(* The state after construction: App's initial resumeData on the 'basic'   *)
(* section, nothing requested, nothing stored.                             *)
(***************************************************************************)
Init ==
    /\ resumeData = InitialResume
    /\ expObjs = (1 :> NewExperience)
    /\ eduObjs = (1 :> NewEducation)
    /\ activeSection = "basic"
    /\ newSkill = <<>>
    /\ isSaving = FALSE
    /\ saveMessage = ""
    /\ resumeId = 0
    /\ isConnected = TRUE
    /\ inflight = <<>>
    /\ probes = 0
    /\ localStorage = <<>>
    /\ store = <<>>
    /\ now = 0
    /\ lastOp = NoCall("init")

(***************************************************************************)
(* SpecSync: the update operation called directly, with any patch and any  *)
(* section replacement, as well as by BasicDetails.                        *)
(***************************************************************************)
FieldValues == {"", "a"}

PatchFields == {"name", "email", "summary"}
Patches == UNION {[S -> FieldValues] : S \in SUBSET PatchFields}

SectionValues(section) ==
    IF section = "skills" THEN {<<>>, <<<<"R">>>>, <<<<"R">>, <<"G">>>>}
    ELSE FieldValues

synchronize(section, data) ==
    /\ updateData("updateResumeData", section, data)
    /\ UNCHANGED <<expObjs, eduObjs, activeSection, newSkill, previewVars, ioVars>>

NextSync ==
    \/ \E data \in Patches : synchronize(null, data)
    \/ \E section \in {"summary", "skills", "title"} :
           \E data \in SectionValues(section) : synchronize(section, data)
    \/ \E name \in {"name", "email"}, value \in FieldValues :
           BasicDetails_handleChange(name, value)

SpecSync == Init /\ [][NextSync]_vars

(***************************************************************************)
(* SpecEditor: every handler of the five section editors, and navigation   *)
(* between them.                                                           *)
(***************************************************************************)
EditorSections == {"basic", "summary", "experience", "education", "skills"}

NextEditor ==
    \/ \E section \in EditorSections : setActiveSection(section)
    \/ \E value \in FieldValues : BasicDetails_handleChange("name", value)
    \/ \E value \in FieldValues : Summary_handleChange(value)
    \/ handleExperienceChange(1, "company", "a")
    \/ \E expIndex \in 1..MaxEntries, respIndex \in 1..MaxResp :
           handleResponsibilityChange(expIndex, respIndex, "")
    \/ addExperience
    \/ \E index \in 1..MaxEntries : addResponsibility(index)
    \/ \E index \in 1..MaxEntries : removeExperience(index)
    \/ \E expIndex \in 1..MaxEntries, respIndex \in 1..MaxResp :
           removeResponsibility(expIndex, respIndex)
    \/ Education_handleChange(1, "degree", "a")
    \/ addEducation
    \/ \E index \in 1..MaxEntries : removeEducation(index)
    \/ setNewSkill(<<" ", "R">>)
    \/ handleAddSkill
    \/ \E index \in 1..MaxSkills : handleRemoveSkill(index)
    \/ addSuggestion(<<"R">>)

SpecEditor == Init /\ [][NextEditor]_vars

(***************************************************************************)
(* SpecSkills: the Skills editor with every text of up to MaxLen           *)
(* characters typed into its input.                                        *)
(***************************************************************************)
NextSkills ==
    \/ \E section \in {"basic", "skills"} : setActiveSection(section)
    \/ \E value \in Texts : setNewSkill(value)
    \/ handleAddSkill
    \/ \E index \in 1..MaxSkills : handleRemoveSkill(index)
    \/ \E skill \in skillCategories : addSuggestion(skill)

SpecSkills == Init /\ [][NextSkills]_vars

(***************************************************************************)
(* The update operation (checked under SpecSync).                          *)
(***************************************************************************)
\* C1: an update called with section = null and data = P yields a document
\* that has P's value in every field P names and the previous document's
\* value in every field P does not name.
C1_PatchMerge ==
    [][(lastOp'.called /\ lastOp'.section = null) =>
          LET P == lastOp'.data
              D == resumeData
          IN  /\ DOMAIN resumeData' = (DOMAIN D) \cup (DOMAIN P)
              /\ \A f \in DOMAIN P : resumeData'[f] = P[f]
              /\ \A f \in (DOMAIN D) \ (DOMAIN P) : resumeData'[f] = D[f]]_vars

\* A patch naming only email was merged into a document whose name and
\* skills had been set before: email is the patch's, the rest is kept.
C1_Witness ==
    /\ lastOp.handler = "updateResumeData"
    /\ lastOp.section = null
    /\ lastOp.data = [email |-> "a"]
    /\ resumeData.name = "a"
    /\ resumeData.email = "a"
    /\ resumeData.skills # <<>>

\* C2: an update called with section = S and data = V changes field S to V
\* and leaves every other top-level field of the document as it was.
C2_SectionReplace ==
    [][(lastOp'.called /\ lastOp'.section # null) =>
          LET S == lastOp'.section
              V == lastOp'.data
          IN  /\ DOMAIN resumeData' = (DOMAIN resumeData) \cup {S}
              /\ resumeData'[S] = V
              /\ \A f \in (DOMAIN resumeData) \ {S} :
                     resumeData'[f] = resumeData[f]]_vars

\* The skills section was replaced in a document with a summary and a name.
C2_Witness ==
    /\ lastOp.handler = "updateResumeData"
    /\ lastOp.section = "skills"
    /\ resumeData.skills = lastOp.data
    /\ resumeData.skills # <<>>
    /\ resumeData.summary = "a"
    /\ resumeData.name = "a"

(***************************************************************************)
(* The list editors (checked under SpecEditor).                            *)
(***************************************************************************)
\* C3: in every state the editors can reach, experiences and education each
\* hold at least one entry.
C3_NeverEmpty ==
    /\ Len(resumeData.experiences) >= 1
    /\ Len(resumeData.education) >= 1

\* Entries were added and removed again: a removal took a list back to one
\* entry while the other list holds several.
C3_Witness ==
    /\ lastOp.handler = "removeExperience"
    /\ lastOp.called
    /\ Len(resumeData.experiences) = 1
    /\ Len(resumeData.education) = MaxEntries
    /\ resumeData.skills # <<>>
    /\ resumeData.summary # ""

\* C4: removing an experience entry when experiences has length 1, or an
\* education entry when education has length 1, changes nothing: the
\* sequence, the entry objects and the whole document stay as they are and
\* updateData is not called.
C4_RemoveLastIsNoOp ==
    [][((lastOp'.handler = "removeExperience" /\ Len(resumeData.experiences) = 1)
        \/ (lastOp'.handler = "removeEducation" /\ Len(resumeData.education) = 1)) =>
          /\ resumeData' = resumeData
          /\ expObjs' = expObjs
          /\ eduObjs' = eduObjs
          /\ ~lastOp'.called]_vars

\* removeEducation ran on a one-entry education list whose entry had been
\* filled in.
C4_Witness ==
    /\ lastOp.handler = "removeEducation"
    /\ ~lastOp.called
    /\ Len(resumeData.education) = 1
    /\ eduObjs[resumeData.education[1]].degree = "a"

(***************************************************************************)
(* The Skills editor (checked under SpecSkills).                           *)
(***************************************************************************)
\* C5: the skills sequence never holds two equal strings.
C5_NoDuplicateSkills ==
    \A i, j \in DOMAIN resumeData.skills :
        i # j => resumeData.skills[i] # resumeData.skills[j]

\* A suggestion already in a full skills list was clicked again.
C5_Witness ==
    /\ lastOp.handler = "addSuggestion"
    /\ ~lastOp.called
    /\ Len(resumeData.skills) = MaxSkills
    /\ Includes(resumeData.skills, lastOp.arg)

\* C6: adding a skill whose trimmed text is already in the skills sequence,
\* typed or from a suggestion, leaves the skills sequence as it is.
C6_AddPresentSkillKeepsSkills ==
    [][((lastOp'.handler = "handleAddSkill"
            /\ Includes(resumeData.skills, Trim(newSkill)))
        \/ (lastOp'.handler = "addSuggestion"
            /\ Includes(resumeData.skills, Trim(lastOp'.arg)))) =>
          resumeData'.skills = resumeData.skills]_vars

\* A text with surrounding whitespace whose trimmed form is in the list was
\* submitted.
C6_Witness ==
    /\ lastOp.handler = "handleAddSkill"
    /\ ~lastOp.called
    /\ newSkill # Trim(newSkill)
    /\ Includes(resumeData.skills, Trim(newSkill))

(***************************************************************************)
(* SpecSave: Preview's save path.  It starts in a session in which the     *)
(* user has typed every field of the experience and education entry, and   *)
(* goes on with name and email edits, clearing the company, navigation,    *)
(* save clicks, the backup timer and the requests' outcomes.               *)
(***************************************************************************)
InitSave ==
    /\ resumeData = InitialResume
    /\ expObjs = (1 :> [NewExperience EXCEPT !.company = "a", !.position = "a",
                                             !.duration = "a",
                                             !.responsibilities = <<"a">>])
    /\ eduObjs = (1 :> [institution |-> "a", degree |-> "a", year |-> "a"])
    /\ activeSection = "basic"
    /\ newSkill = <<>>
    /\ isSaving = FALSE
    /\ saveMessage = ""
    /\ resumeId = 0
    /\ isConnected = TRUE
    /\ inflight = <<>>
    /\ probes = 0
    /\ localStorage = <<>>
    /\ store = <<>>
    /\ now = 0
    /\ lastOp = NoCall("handleExperienceChange")

NextSave ==
    \/ \E section \in {"basic", "experience", "preview"} : setActiveSection(section)
    \/ \E value \in FieldValues : BasicDetails_handleChange("name", value)
    \/ BasicDetails_handleChange("email", "a")
    \/ handleExperienceChange(1, "company", "")
    \/ handleSave
    \/ \E i \in 1..MaxInFlight, written \in BOOLEAN : saveAnswered(i, written)
    \/ \E i \in 1..MaxInFlight, written \in BOOLEAN : saveUnreachable(i, written)
    \/ \E reply \in {GET_health(store), NoReply(store)} : checkConnection(reply)
    \/ \E written \in BOOLEAN : autoSaveInterval(written)
    \/ \E readable \in BOOLEAN : loadFromBackup(readable)
    \/ clearSaveMessage

SpecSave == InitSave /\ [][NextSave]_vars

(***************************************************************************)
(* SpecStore: the gateway and the Store behind it, called by any client    *)
(* with complete documents, valid or not, and with identifiers of every    *)
(* kind, each call one step from request to result.                        *)
(* SpecStoreClock: the same calls with valid documents and well-formed     *)
(* identifiers while the server's clock advances.                          *)
(***************************************************************************)
uiVars == <<editorVars, activeSection, newSkill, previewVars, inflight, probes,
            localStorage>>

\* A complete document: the experience and education entries filled in.
StoreDocument(name, email, summary, company) ==
    [name |-> name, title |-> "", phone |-> "", email |-> email, location |-> "",
     website |-> "", summary |-> summary,
     experiences |-> <<[company |-> company, position |-> "a", duration |-> "a",
                        responsibilities |-> <<"a">>]>>,
     education |-> <<[institution |-> "a", degree |-> "a", year |-> "a"]>>,
     skills |-> <<>>]

\* Documents the Store accepts: plain, with a summary, and with a name that
\* has a leading blank.
ValidBodies ==
    {StoreDocument("a", "a", "", "a"), StoreDocument("a", "a", "a", "a"),
     StoreDocument(" a", "a", "", "a")}

\* Documents with one required field empty: name, email, a company.
InvalidBodies ==
    {StoreDocument("", "a", "", "a"), StoreDocument("a", "", "", "a"),
     StoreDocument("a", "a", "", "")}

StoreBodies == ValidBodies \cup InvalidBodies

\* null, a string that is no ObjectId, every _id in use and one not in use.
RequestIds == {0, NotAnObjectId} \cup 1..(MaxIds + 1)

GatewayOp(handler, id, body, result) ==
    [handler |-> handler, id |-> id, body |-> body, result |-> result]

\* Time passes on the server.
tick ==
    /\ now < MaxClock
    /\ now' = now + 1
    /\ lastOp' = GatewayOp("tick", 0, <<>>, <<>>)
    /\ UNCHANGED <<uiVars, store>>

call_saveResume(body, reachable) ==
    LET reply == IF reachable THEN POST_resumes(store, now, body) ELSE NoReply(store)
        result == saveResume(store, body, reply)
    IN  /\ Len(reply.store) <= MaxIds
        /\ store' = IF result.sent THEN reply.store ELSE store
        /\ lastOp' = GatewayOp("saveResume", 0, body, result)
        /\ UNCHANGED <<uiVars, now>>

call_loadResume(id, reachable) ==
    LET reply == IF reachable THEN GET_resume(store, id) ELSE NoReply(store)
        result == loadResume(store, id, reply)
    IN  /\ store' = IF result.sent THEN reply.store ELSE store
        /\ lastOp' = GatewayOp("loadResume", id, <<>>, result)
        /\ UNCHANGED <<uiVars, now>>

call_updateResume(id, body, reachable) ==
    LET reply == IF reachable THEN PUT_resume(store, now, id, body) ELSE NoReply(store)
        result == updateResume(store, id, reply)
    IN  /\ store' = IF result.sent THEN reply.store ELSE store
        /\ lastOp' = GatewayOp("updateResume", id, body, result)
        /\ UNCHANGED <<uiVars, now>>

call_getAllResumes(reachable) ==
    \E data \in Listings(store) :
        LET reply == IF reachable THEN GET_resumes(store, data) ELSE NoReply(store)
            result == getAllResumes(reply)
        IN  /\ store' = reply.store
            /\ lastOp' = GatewayOp("getAllResumes", 0, <<>>, result)
            /\ UNCHANGED <<uiVars, now>>

call_healthCheck(reachable) ==
    LET reply == IF reachable THEN GET_health(store) ELSE NoReply(store)
        result == healthCheck(reply)
    IN  /\ store' = reply.store
        /\ lastOp' = GatewayOp("healthCheck", 0, <<>>, result)
        /\ UNCHANGED <<uiVars, now>>

NextStore ==
    \/ \E body \in StoreBodies, reachable \in BOOLEAN : call_saveResume(body, reachable)
    \/ \E id \in RequestIds, reachable \in BOOLEAN : call_loadResume(id, reachable)
    \/ \E id \in RequestIds, body \in StoreBodies, reachable \in BOOLEAN :
           call_updateResume(id, body, reachable)
    \/ \E reachable \in BOOLEAN : call_getAllResumes(reachable)
    \/ \E reachable \in BOOLEAN : call_healthCheck(reachable)

SpecStore == Init /\ [][NextStore]_vars

NextStoreClock ==
    \/ tick
    \/ \E body \in ValidBodies : call_saveResume(body, TRUE)
    \/ \E id \in 1..MaxIds : call_loadResume(id, TRUE)
    \/ \E id \in 1..MaxIds, body \in ValidBodies : call_updateResume(id, body, TRUE)
    \/ call_getAllResumes(TRUE)

SpecStoreClock == Init /\ [][NextStoreClock]_vars

(***************************************************************************)
(* Claims about Preview's save path: SpecSave.                             *)
(***************************************************************************)
\* C7: no create or update request is ever sent to the Store for a document
\* whose name or email is empty: every request awaiting its answer carries a
\* body with both.
C7_NoSaveWithoutNameOrEmail ==
    \A i \in DOMAIN inflight :
        inflight[i].body.name # "" /\ inflight[i].body.email # ""

\* The button is enabled by the email alone, the click is refused for the
\* empty name, and an earlier request is still awaiting its answer.
C7_Witness ==
    /\ lastOp.handler = "handleSave"
    /\ lastOp.request = "none"
    /\ saveMessage = "Name and email are required to save"
    /\ resumeData.name = ""
    /\ resumeData.email = "a"
    /\ inflight # <<>>

\* C8: the UI never has two write requests to the same document identifier
\* outstanding at the same time.
C8_NoConcurrentWritesToSameId ==
    \A i, j \in DOMAIN inflight :
        (i # j /\ inflight[i].id # 0) => inflight[i].id # inflight[j].id

\* An update abandoned by navigation is still awaiting its answer when the
\* remounted Preview sends its next request.
C8_Witness ==
    /\ Len(inflight) = 2
    /\ inflight[1].kind = "update"
    /\ ~inflight[1].alive
    /\ inflight[2].alive

\* The messages of handleSave's catch block.
FailureMessages ==
    {SaveFailed(m) : m \in {"Failed to fetch", "Failed to save resume",
                            "Failed to update resume",
                            "Name and email are required fields"}}

\* C9: when a save of a valid document D fails because the Store is
\* unreachable or rejects the request, the failure is reported and a
\* subsequent load-from-local returns a payload equal to D in every field of
\* D plus a lastSaved timestamp.  Stated for the calls whose backup write
\* the browser accepts; D is the body the request carried.
C9_FailedSaveLeavesBackupOfD ==
    [][(lastOp'.handler = "handleSave" /\ lastOp'.request # "none"
            /\ lastOp'.outcome = "failed" /\ lastOp'.localWrite = "written")
       => /\ (isSaving /\ ~isSaving') => saveMessage' \in FailureMessages
          /\ localStorage' # <<>>
          /\ LET loaded == JSON_parse(localStorage')
                 D == lastOp'.data
             IN  /\ \A f \in Fields : f \in DOMAIN loaded /\ loaded[f] = D[f]
                 /\ "lastSaved" \in DOMAIN loaded]_vars

\* The handlers of Preview and the callbacks of its timers and requests.
PersistenceHandlers ==
    {"handleSave", "checkConnection", "autoSaveInterval", "loadFromBackup"}

\* C10: every persistence operation outcome (save success, save failure,
\* probe failure, local backup write or read, success or failure) leaves
\* the document unchanged, and every editor can still be opened afterwards.
C10_PersistenceLeavesDocument ==
    /\ [](\A section \in EditorSections : ENABLED setActiveSection(section))
    /\ [][lastOp'.handler \in PersistenceHandlers
          => /\ resumeData' = resumeData
             /\ Deref(resumeData', expObjs', eduObjs') = Document]_vars

\* A save has failed, its backup write has failed too, and the document is
\* the one the user typed.
C10_Witness ==
    /\ lastOp.handler = "handleSave"
    /\ lastOp.outcome = "failed"
    /\ lastOp.localWrite = "failed"
    /\ resumeData.name = "a"
    /\ resumeData.email = "a"
    /\ activeSection = "preview"

(***************************************************************************)
(* Claims about the gateway and the Store: SpecStore, SpecStoreClock.      *)
(***************************************************************************)
\* The request of the step was answered by the Store.
Answered(op) == op.result.sent /\ op.result.reply.status # 0

\* C11: update(id, D) for any identifier id that matches no stored record
\* fails with a not-found outcome (HTTP 404, 'Resume not found') and leaves
\* the Store unchanged.  Stated for valid documents D.
C11_UpdateOfUnknownIdIsNotFound ==
    [][(lastOp'.handler = "updateResume" /\ Answered(lastOp')
            /\ lastOp'.id \notin DOMAIN store /\ lastOp'.body \in ValidBodies)
       => /\ lastOp'.result.reply.status = 404
          /\ lastOp'.result.threw
          /\ lastOp'.result.message = "Resume not found"
          /\ store' = store]_vars

\* C12: read(id) returns the stored document when a record with that id
\* exists, and otherwise fails with a not-found outcome (HTTP 404) for every
\* id that matches no record.
C12_ReadFindsOrIsNotFound ==
    [][(lastOp'.handler = "loadResume" /\ Answered(lastOp'))
       => IF lastOp'.id \in DOMAIN store
          THEN /\ ~lastOp'.result.threw
               /\ lastOp'.result.data = store[lastOp'.id]
          ELSE /\ lastOp'.result.threw
               /\ lastOp'.result.reply.status = 404]_vars

\* The fields an error message of the gateway names.
NamedIn(message) ==
    IF message = "Name and email are required fields" THEN {"name", "email"} ELSE {}

\* C13: create of a document whose name is empty (email present) fails with
\* a validation error that names the field name, the failure is reported to
\* the caller (thrown), and no record is added to the Store.
C13_CreateWithoutNameFails ==
    [][(lastOp'.handler = "saveResume" /\ lastOp'.body.name = ""
            /\ lastOp'.body.email # "")
       => /\ lastOp'.result.threw
          /\ "name" \in NamedIn(lastOp'.result.message)
          /\ store' = store]_vars

\* A create without a name has just failed against a Store that holds a
\* record.
C13_Witness ==
    /\ lastOp.handler = "saveResume"
    /\ lastOp.body.name = ""
    /\ lastOp.body.email = "a"
    /\ lastOp.result.threw
    /\ Len(store) = 1

ReadAfter(id) == loadResume(store', id, GET_resume(store', id))

C16_ListIsNewestFirst ==
    [][(lastOp'.handler = "getAllResumes" /\ ~lastOp'.result.threw)
       => LET list == lastOp'.result.data
          IN  /\ Len(list) = Len(store)
              /\ \A id \in DOMAIN store :
                     \E i \in DOMAIN list : list[i] = SummaryOf(store[id])
              /\ \A i, j \in DOMAIN list :
                     i < j => list[i].updatedAt >= list[j].updatedAt
              /\ (Len(store) = 2 /\ store[2].updatedAt > store[1].updatedAt)
                     => list = <<SummaryOf(store[2]), SummaryOf(store[1])>>]_vars

\* The first record was updated after the second was created, and the list
\* has it first.
C16_Witness ==
    /\ lastOp.handler = "getAllResumes"
    /\ Len(store) = 2
    /\ store[1].updatedAt > store[2].updatedAt
    /\ lastOp.result.data[1]._id = 1
    /\ lastOp.result.data[2]._id = 2

(***************************************************************************)
(* Further claims about Preview: SpecSave.                                 *)
(***************************************************************************)
\* C17: probe() never throws: whether the Store is reachable or not it
\* gives a connectivity boolean; its result only drives the status
\* indicator (a checkConnection call sets nothing but isConnected); and a
\* click on Save with name and email present sends its request whatever the
\* last probe said.
C17_ProbeOnlyDrivesIndicator ==
    /\ []((activeSection = "preview" /\ ~isConnected /\ ~isSaving
             /\ ~MissingRequired(resumeData) /\ Len(inflight) < MaxInFlight)
          => ENABLED handleSave)
    /\ [][lastOp'.handler = "checkConnection"
          => /\ lastOp'.outcome \in {"connected", "failed"}
             /\ isConnected' = (lastOp'.outcome = "connected")
             /\ UNCHANGED <<editorVars, activeSection, newSkill, isSaving,
                            saveMessage, resumeId, inflight, localStorage,
                            store, now>>]_vars
    /\ [][(lastOp'.handler = "handleSave" /\ lastOp'.outcome = "none"
              /\ ~MissingRequired(resumeData))
          => /\ lastOp'.request \in {"create", "update"}
             /\ Len(inflight') = Len(inflight) + 1]_vars

\* The indicator says disconnected and the click on Save has just sent a
\* create request.
C17_Witness ==
    /\ ~isConnected
    /\ lastOp.handler = "handleSave"
    /\ lastOp.request = "create"
    /\ lastOp.outcome = "none"
    /\ isSaving
    /\ inflight # <<>>

(***************************************************************************)
(* SpecLocal: the local backup alone.  The user edits name and email and   *)
(* opens Preview, the backup timer fires, the Load Backup button is        *)
(* clicked, and the item is removed or left broken off from outside the    *)
(* page (site data cleared, another tab, a write cut short).               *)
(***************************************************************************)
\* Item texts that are no JSON: broken off after the first key.
CorruptTexts == {<<<<"name">>>>}

\* The item 'resumeBackup' is set or removed by something other than this
\* page's resumeService.
storage(item) ==
    /\ localStorage # item
    /\ localStorage' = item
    /\ lastOp' = PreviewOp("storage", "none", "none", "none", <<>>)
    /\ UNCHANGED <<editorVars, activeSection, newSkill, previewVars, inflight,
                   probes, store, now>>

NextLocal ==
    \/ \E section \in {"basic", "preview"} : setActiveSection(section)
    \/ \E name \in {"name", "email"}, value \in FieldValues :
           BasicDetails_handleChange(name, value)
    \/ \E written \in BOOLEAN : autoSaveInterval(written)
    \/ \E readable \in BOOLEAN : loadFromBackup(readable)
    \/ \E item \in {<<>>} \cup CorruptTexts : storage(item)
    \/ clearSaveMessage

SpecLocal == Init /\ [][NextLocal]_vars

\* null, as loadFromLocalStorage returns it.
NullBackup == [threw |-> FALSE, found |-> FALSE, data |-> <<>>]

\* C18: load-from-local returns the payload last written by save-to-local
\* (the document plus lastSaved), and returns null without raising an error
\* when the key is absent, its content is corrupt or it cannot be read; the
\* Load Backup button then reports that no backup was found.
C18_LoadReturnsWrittenOrNull ==
    /\ []((localStorage = <<>> \/ SyntaxError(localStorage))
          => \A readable \in BOOLEAN : loadFromLocalStorage(readable) = NullBackup)
    /\ [](loadFromLocalStorage(FALSE) = NullBackup)
    /\ [][(lastOp'.handler = "autoSaveInterval" /\ lastOp'.localWrite = "written")
          => /\ ~SyntaxError(localStorage')
             /\ JSON_parse(localStorage') = ("lastSaved" :> toISOString) @@ Document
             /\ JSON_parse(localStorage') =
                    ("lastSaved" :> toISOString) @@ Deref(resumeData', expObjs', eduObjs')]_vars
    /\ [][lastOp'.handler = "loadFromBackup"
          => /\ lastOp'.outcome # "threw"
             /\ saveMessage' =
                    IF lastOp'.localWrite = "read" /\ localStorage # <<>>
                       /\ ~SyntaxError(localStorage)
                    THEN "Found local backup! Refresh the page to load it."
                    ELSE "No local backup found"]_vars

\* The item is corrupt and a click on Load Backup has just reported that
\* there is no backup.
C18_Witness ==
    /\ localStorage \in CorruptTexts
    /\ lastOp.handler = "loadFromBackup"
    /\ lastOp.localWrite = "read"
    /\ saveMessage = "No local backup found"

\* C19: in every interleaving of the local-backup timer with an explicit
\* save (its completion handlers included), both write the same document
\* snapshot to the backup key: while Preview is mounted, with its timer
\* armed, every save awaiting its answer holds the document the timer holds;
\* and whichever write lands, the stored backup equals the current document.
C19_BackupWritersAgree ==
    /\ [](activeSection = "preview"
          => \A i \in DOMAIN inflight :
                 Deref(inflight[i].data, expObjs, eduObjs) = Document)
    /\ [][(lastOp'.handler \in {"autoSaveInterval", "handleSave"}
              /\ lastOp'.localWrite = "written")
          => \A f \in Fields :
                 JSON_parse(localStorage')[f]
                     = Deref(resumeData', expObjs', eduObjs')[f]]_vars

(***************************************************************************)
(* Further claims about the section editors: SpecEditor, SpecSkills.       *)
(***************************************************************************)
\* C21: the experience and education editors carry out an add or remove on
\* their list only when the required sub-fields (company, position,
\* duration; institution, degree, year) of the entries the list holds are
\* non-empty.
C21_ListOpsNeedFilledEntries ==
    [][/\ (lastOp'.handler \in {"addExperience", "removeExperience"} /\ lastOp'.called)
            => \A i \in DOMAIN resumeData.experiences :
                   \A f \in ExperienceFields :
                       expObjs[resumeData.experiences[i]][f] # ""
       /\ (lastOp'.handler \in {"addEducation", "removeEducation"} /\ lastOp'.called)
            => \A i \in DOMAIN resumeData.education :
                   \A f \in EducationFields :
                       eduObjs[resumeData.education[i]][f] # ""]_vars

\* C22: no section editor mutates the document directly: the live document
\* changes only in a step that calls the update operation, and the document
\* value held before an editor action (its entry objects, with their
\* responsibilities lists) is not altered in place by that action.
C22_NoInPlaceMutation ==
    [][/\ Deref(resumeData', expObjs', eduObjs') # Document => lastOp'.called
       /\ \A obj \in (DOMAIN expObjs) \cap (DOMAIN expObjs') :
              expObjs'[obj] = expObjs[obj]
       /\ \A obj \in (DOMAIN eduObjs) \cap (DOMAIN eduObjs') :
              eduObjs'[obj] = eduObjs[obj]]_vars

(***************************************************************************)
(* Further claims about the gateway and the Store: SpecStore,              *)
(* SpecStoreClock.                                                         *)
(***************************************************************************)
\* C23: for every gateway operation that fails on the Store's answer, the
\* error raised to the caller carries the Store's error message unchanged:
\* its message is the reply's, and it names every path the Store's error
\* names (for a validation failure, the offending field).
C23_ErrorCarriesStoreMessage ==
    [][(lastOp'.handler \in {"saveResume", "loadResume", "updateResume"}
            /\ Answered(lastOp') /\ lastOp'.result.threw)
       => /\ lastOp'.result.message = lastOp'.result.reply.message
          /\ lastOp'.result.reply.error \subseteq NamedIn(lastOp'.result.message)]_vars

(***************************************************************************)
(* SpecStoreDates: creates and updates by a client of the API whose        *)
(* payload may carry createdAt and updatedAt values of its own, while the  *)
(* server's clock advances.                                                *)
(***************************************************************************)
\* A date the client puts in its payload; the server's clock never reads it.
ClientDate == MaxClock + 1

\* A valid document, and the same document with timestamps authored by the
\* client.
DatedBodies ==
    {StoreDocument("a", "a", "", "a"),
     [createdAt |-> ClientDate, updatedAt |-> ClientDate]
         @@ StoreDocument("a", "a", "", "a")}

NextStoreDates ==
    \/ tick
    \/ \E body \in DatedBodies : call_saveResume(body, TRUE)
    \/ \E id \in 1..MaxIds : call_loadResume(id, TRUE)
    \/ \E id \in 1..MaxIds, body \in DatedBodies : call_updateResume(id, body, TRUE)

SpecStoreDates == Init /\ [][NextStoreDates]_vars

\* C24: createdAt and updatedAt of a stored record are determined by the
\* Store only: an insert sets both to the Store's time, an update sets
\* updatedAt to the Store's time, createdAt of a stored record never changes,
\* and no date of a client's payload is in either field of any record.
C24_TimestampsAreTheStores ==
    /\ [](\A id \in DOMAIN store :
              store[id].createdAt # ClientDate /\ store[id].updatedAt # ClientDate)
    /\ [][/\ \A id \in DOMAIN store : store'[id].createdAt = store[id].createdAt
          /\ (lastOp'.handler = "saveResume" /\ ~lastOp'.result.threw)
                 => /\ store'[Len(store')].createdAt = now
                    /\ store'[Len(store')].updatedAt = now
          /\ (lastOp'.handler = "updateResume" /\ ~lastOp'.result.threw)
                 => store'[lastOp'.id].updatedAt = now]_vars

(***************************************************************************)
(* SpecLocalFair: SpecLocal with the backup timer fair: while its write    *)
(* would change something, the interval eventually fires and the browser   *)
(* accepts the write.                                                      *)
(***************************************************************************)
SpecLocalFair == Init /\ [][NextLocal]_vars /\ WF_vars(autoSaveInterval(TRUE))

\* loadFromLocalStorage() gives a backup with this name and email.
BackupHolds(name, email) ==
    LET backup == loadFromLocalStorage(TRUE)
    IN  backup.found /\ backup.data.name = name /\ backup.data.email = email

\* C25: the local-backup timer fires throughout the session: under fairness
\* of the timer, a document that is no longer edited is eventually in the
\* local backup, and is there again whenever the backup is lost, without any
\* explicit save.  Stated for documents with a name.
C25_StableDocumentIsBackedUp ==
    \A email \in FieldValues :
        <>[](resumeData.name = "a" /\ resumeData.email = email)
            => []<>BackupHolds("a", email)

(***************************************************************************)
(* Further claims about the Skills editor: SpecSkills.                     *)
(***************************************************************************)
\* A text that is non-empty and has no surrounding whitespace.
IsTrimmed(text) == text # <<>> /\ Head(text) # " " /\ text[Len(text)] # " "

\* C26: a typed skill insertion whose text is empty after trimming is
\* rejected, the skills staying as they are; an accepted typed insertion
\* appends the trimmed text at the end; so every skill in the list is
\* non-empty and has no surrounding whitespace.
C26_TypedSkillIsTrimmed ==
    /\ [](\A i \in DOMAIN resumeData.skills : IsTrimmed(resumeData.skills[i]))
    /\ [][lastOp'.handler = "handleAddSkill"
          => /\ Trim(newSkill) = <<>>
                    => (~lastOp'.called /\ resumeData' = resumeData)
             /\ lastOp'.called
                    => /\ resumeData'.skills
                              = Append(resumeData.skills, Trim(newSkill))
                       /\ IsTrimmed(resumeData'.skills[Len(resumeData'.skills)])
                       /\ \A f \in Fields \ {"skills"} :
                              resumeData'[f] = resumeData[f]]_vars

\* A text with a blank before and after it was typed and accepted as the
\* second skill: the list ends with the text without the blanks.
C26_Witness ==
    /\ lastOp.handler = "handleAddSkill"
    /\ lastOp.called
    /\ lastOp.arg # Trim(lastOp.arg)
    /\ Len(resumeData.skills) = 2
    /\ resumeData.skills[2] = Trim(lastOp.arg)

(***************************************************************************)
(* Further claims about the save action: SpecSave.                         *)
(***************************************************************************)
\* C27: the document has no identifier before the first successful save;
\* once a save has succeeded (the Store holds the session's record), every
\* later save is an update of that record's identifier and never a second
\* create, whatever edits and navigation came in between.
C27_OneCreatePerSession ==
    /\ [](store = <<>> => resumeId = 0)
    /\ [][(lastOp'.handler = "handleSave" /\ lastOp'.outcome = "none"
              /\ lastOp'.request # "none" /\ store # <<>>)
          => /\ lastOp'.request = "update"
             /\ inflight'[Len(inflight')].id = store[1]._id]_vars

\* C28: whenever a save request sent by the save action is outstanding, the
\* in-flight flag that the save button sees is set, so at most one save
\* request of the session is outstanding at any time, leaving and reopening
\* the preview section included.
C28_OneSaveOutstanding ==
    /\ (activeSection = "preview" /\ inflight # <<>>) => isSaving
    /\ Len(inflight) <= 1

\* The requests awaited by handleSave calls of the mounted Preview.
AliveRequests(reqs) == {i \in DOMAIN reqs : reqs[i].alive}

\* C29: every save whose request completes, whether it succeeded or failed,
\* resets the in-flight flag, so that the save action is available again:
\* the step that handles the completion of the mounted Preview's request
\* leaves the flag unset and the button enabled, the flag is never set
\* without such a request outstanding, and an enabled button can be clicked.
C29_CompletionResetsFlag ==
    /\ [](isSaving => AliveRequests(inflight) # {})
    /\ []((activeSection = "preview" /\ ~SaveButtonDisabled
              /\ Len(inflight) < MaxInFlight)
          => ENABLED handleSave)
    /\ [][(lastOp'.handler = "handleSave" /\ lastOp'.outcome \in {"saved", "failed"}
              /\ Cardinality(AliveRequests(inflight'))
                     < Cardinality(AliveRequests(inflight)))
          => /\ isSaving
             /\ ~isSaving'
             /\ activeSection' = "preview"
             /\ resumeData'.name # "" \/ resumeData'.email # ""]_vars

\* An update was sent by the mounted Preview, the Store could not be
\* reached, and the completion has been handled: the flag is unset and the
\* failure is shown.
C29_Witness ==
    /\ lastOp.handler = "handleSave"
    /\ lastOp.request = "update"
    /\ lastOp.outcome = "failed"
    /\ saveMessage = SaveFailed("Failed to fetch")
    /\ activeSection = "preview"
    /\ resumeId # 0
    /\ ~isSaving
    /\ ~SaveButtonDisabled

(***************************************************************************)
(* SpecResponsibilities: the Experience editor alone, with texts typed     *)
(* into responsibilities so that the entries of a list can be told apart.  *)
(***************************************************************************)
NextResponsibilities ==
    \/ \E section \in {"basic", "experience"} : setActiveSection(section)
    \/ addExperience
    \/ \E index \in 1..MaxEntries : removeExperience(index)
    \/ \E index \in 1..MaxEntries : addResponsibility(index)
    \/ \E expIndex \in 1..MaxEntries, respIndex \in 1..MaxResp :
           handleResponsibilityChange(expIndex, respIndex, "a")
    \/ \E expIndex \in 1..MaxEntries, respIndex \in 1..MaxResp :
           removeResponsibility(expIndex, respIndex)

SpecResponsibilities == Init /\ [][NextResponsibilities]_vars

\* C30: in every state the editor operations reach, the responsibilities
\* list of every experience entry has at least one element; a
\* removeResponsibility call changes something only on a list longer than 1
\* (on a list of length 1 it is a no-op), and it then removes exactly the
\* element at the given index: the elements before it stay, those after it
\* move up by one, and nothing else in the document changes.
C30_ResponsibilitiesNeverEmpty ==
    /\ [](\A i \in DOMAIN resumeData.experiences :
              Len(expObjs[resumeData.experiences[i]].responsibilities) >= 1)
    /\ [][lastOp'.handler = "removeResponsibility"
          => IF lastOp'.called
             THEN LET expIndex == lastOp'.arg[1]
                      respIndex == lastOp'.arg[2]
                      obj == resumeData.experiences[expIndex]
                      old == expObjs[obj].responsibilities
                      new == expObjs'[obj].responsibilities
                  IN  /\ Len(old) > 1
                      /\ Len(new) = Len(old) - 1
                      /\ \A k \in 1..Len(new) :
                             new[k] = IF k < respIndex THEN old[k] ELSE old[k + 1]
                      /\ \A f \in ExperienceFields : expObjs'[obj][f] = expObjs[obj][f]
                      /\ DOMAIN expObjs' = DOMAIN expObjs
                      /\ \A other \in DOMAIN expObjs :
                             other # obj => expObjs'[other] = expObjs[other]
                      /\ resumeData' = resumeData
                      /\ eduObjs' = eduObjs
             ELSE /\ resumeData' = resumeData
                  /\ expObjs' = expObjs
                  /\ eduObjs' = eduObjs]_vars

\* The first of two responsibilities of the second entry, the second one
\* being the typed one, has just been removed: the typed one is left.
C30_Witness ==
    /\ lastOp.handler = "removeResponsibility"
    /\ lastOp.called
    /\ lastOp.arg = <<2, 1>>
    /\ Len(resumeData.experiences) = 2
    /\ expObjs[resumeData.experiences[2]].responsibilities = <<"a">>
    /\ Len(expObjs[resumeData.experiences[1]].responsibilities) = 1
====
